---- MODULE Spec2Model ----
(***************************************************************************)
(* Model of src/main.py: the rail network (cities, connections, derived    *)
(* graph) and the visualizer's frame timeline (calculate_frames_and_stops  *)
(* and the per-frame callback update).                                     *)
(*                                                                         *)
(* Python floats are modelled by exact rationals <<numerator, denominator>>*)
(* (denominator > 0, lowest terms); datetime/timedelta values by a pair    *)
(* of whole seconds and microseconds, as the datetime module stores them.  *)
(***************************************************************************)
EXTENDS Integers, Sequences, FiniteSets, TLC

VARIABLES cities, connections, graph_nodes, graph_edges,
          pc, error,
          duration, total_frames, stop_durations, pos, current_time,
          frame, view, marker, calls

vars == <<cities, connections, graph_nodes, graph_edges, pc, error,
          duration, total_frames, stop_durations, pos, current_time,
          frame, view, marker, calls>>

network == <<cities, connections, graph_nodes, graph_edges>>
timeline == <<duration, total_frames, stop_durations, pos>>
canvas == <<frame, view, marker>>

----------------------------------------------------------------------------
(* Bounds of the model *)

MaxConnections == 3
MaxSeconds == 2
MaxCallConnections == 2
MaxCallSeconds == 1
MaxFrame == 10
MaxCalls == 3

----------------------------------------------------------------------------
(* Rational arithmetic standing for the float expressions of the source *)

Abs(n) == IF n < 0 THEN -n ELSE n

RECURSIVE GCD(_, _)
GCD(a, b) == IF b = 0 THEN a ELSE GCD(b, a % b)

Rat(n, d) ==
  LET g == GCD(Abs(n), Abs(d))
      s == IF d < 0 THEN -1 ELSE 1
  IN  <<(s * n) \div g, (s * d) \div g>>

RatAdd(a, b) == Rat(a[1] * b[2] + b[1] * a[2], a[2] * b[2])
RatSub(a, b) == Rat(a[1] * b[2] - b[1] * a[2], a[2] * b[2])
RatMul(a, b) == Rat(a[1] * b[1], a[2] * b[2])
RatDivInt(a, k) == Rat(a[1], a[2] * k)

\* int(x): truncation toward zero
Trunc(a) == IF a[1] >= 0 THEN a[1] \div a[2] ELSE -((-a[1]) \div a[2])

\* round(x): nearest integer, ties to the even neighbour
RoundHalfEven(a) ==
  LET fl == a[1] \div a[2]
      r2 == 2 * (a[1] % a[2])
  IN  IF r2 < a[2] THEN fl
      ELSE IF r2 > a[2] THEN fl + 1
      ELSE IF fl % 2 = 0 THEN fl ELSE fl + 1

----------------------------------------------------------------------------
(* City *)

MinX == 8
MaxX == 13
MinY == 54
MaxY == 58

normalize_coordinates(c) ==
  <<RatSub(RatMul(Rat(c[1] - MinX, MaxX - MinX), <<2, 1>>), <<1, 1>>),
    RatSub(RatMul(Rat(c[2] - MinY, MaxY - MinY), <<2, 1>>), <<1, 1>>)>>

----------------------------------------------------------------------------
(* Inputs *)

Names == {"A", "B"}
Coordinates == {<<MinX, MinY>>, <<MaxX, MaxY>>}
Durations == {<<1, 4>>, <<1, 1>>}

Connection(s, e, d) == [start_city |-> s, end_city |-> e, duration |-> d]

----------------------------------------------------------------------------
(* RailNetwork *)

None == "None"
NoMarker == <<>>
NoView == [status |-> "NONE", idx |-> 0, i |-> 0,
           travel_frames |-> 0, stop_frames |-> 0]
Midnight == [sec |-> 0, us |-> 0]

InitVisualizer ==
  /\ error = None
  /\ duration = 0
  /\ total_frames = 0
  /\ stop_durations = <<>>
  /\ pos = <<>>
  /\ current_time = Midnight
  /\ frame = -1
  /\ view = NoView
  /\ marker = NoMarker
  /\ calls = 0

InitLoad ==
  /\ cities = <<>>
  /\ connections = <<>>
  /\ graph_nodes = {}
  /\ graph_edges = <<>>
  /\ pc = "loading"
  /\ InitVisualizer

visualizer == <<error, duration, total_frames, stop_durations, pos,
                current_time, frame, view, marker, calls>>

\* dict assignment self.cities[name] = city
DictSet(f, k, v) == [x \in (DOMAIN f) \cup {k} |-> IF x = k THEN v ELSE f[x]]

add_city(name, coordinates) ==
  /\ pc \in {"loading", "built"}
  /\ cities' = DictSet(cities, name, coordinates)
  /\ pc' = "loading"
  /\ UNCHANGED <<connections, graph_nodes, graph_edges, visualizer>>

add_connection(s, e, d) ==
  /\ pc \in {"loading", "built"}
  /\ Len(connections) < MaxConnections
  /\ connections' = Append(connections, Connection(s, e, d))
  /\ pc' = "loading"
  /\ UNCHANGED <<cities, graph_nodes, graph_edges, visualizer>>

\* networkx Graph.add_edge on a simple undirected graph: both endpoints
\* become nodes, the edge is keyed by the unordered pair, the attribute
\* is overwritten
RECURSIVE AddEdges(_, _, _)
AddEdges(g, conns, k) ==
  IF k > Len(conns) THEN g
  ELSE LET c == conns[k]
       IN  AddEdges([nodes |-> g.nodes \cup {c.start_city, c.end_city},
                     edges |-> DictSet(g.edges, {c.start_city, c.end_city},
                                       c.duration)],
                    conns, k + 1)

BuildGraph(g, cs, conns) ==
  AddEdges([nodes |-> g.nodes \cup DOMAIN cs, edges |-> g.edges], conns, 1)

build_graph ==
  /\ pc = "loading"
  /\ LET g == BuildGraph([nodes |-> graph_nodes, edges |-> graph_edges],
                         cities, connections)
     IN  /\ graph_nodes' = g.nodes
         /\ graph_edges' = g.edges
  /\ pc' = "built"
  /\ UNCHANGED <<cities, connections, visualizer>>

NextLoad ==
  \/ \E n \in Names, c \in Coordinates : add_city(n, c)
  \/ \E s \in Names, e \in Names, d \in Durations : add_connection(s, e, d)
  \/ build_graph

SpecLoad == InitLoad /\ [][NextLoad]_vars

----------------------------------------------------------------------------
(* datetime / timedelta *)

StartTime == [sec |-> 6 * 3600, us |-> 0]

\* timedelta built from a rational number of seconds: whole seconds plus
\* microseconds rounded half-to-even, normalised to 0 <= us < 10^6
TimedeltaSeconds(r) ==
  LET s == r[1] \div r[2]
      u == RoundHalfEven(Rat((r[1] % r[2]) * 1000000, r[2]))
  IN  IF u = 1000000 THEN [sec |-> s + 1, us |-> 0] ELSE [sec |-> s, us |-> u]

TimedeltaHours(h) == TimedeltaSeconds(RatMul(h, <<3600, 1>>))
TimedeltaMinutes(m) == TimedeltaSeconds(RatMul(m, <<60, 1>>))

\* variant: the delta is taken off the clock
TimeAddBackwards(t, td) ==
  [sec |-> t.sec - td.sec - (IF t.us < td.us THEN 1 ELSE 0),
   us |-> (t.us - td.us) % 1000000]

TimeAdd(t, td) ==
  LET u == t.us + td.us
  IN  [sec |-> t.sec + td.sec + (u \div 1000000), us |-> u % 1000000]

TimeLeq(a, b) == a.sec < b.sec \/ (a.sec = b.sec /\ a.us <= b.us)
TimeLess(a, b) == a.sec < b.sec \/ (a.sec = b.sec /\ a.us < b.us)

----------------------------------------------------------------------------
(* RailNetworkVisualizer *)

FramesPerSecond == 10
StopFraction == <<1, 5>>

RECURSIVE SumDurations(_, _)
SumDurations(conns, k) ==
  IF k > Len(conns) THEN <<0, 1>>
  ELSE RatAdd(conns[k].duration, SumDurations(conns, k + 1))

\* __init__ followed by calculate_frames_and_stops; with no connection the
\* division by len(connections) raises before total_frames is assigned
Construct(D) ==
  /\ pc = "loaded"
  /\ duration' = D
  /\ pos' = [n \in DOMAIN cities |-> normalize_coordinates(cities[n])]
  /\ current_time' = StartTime
  /\ IF Len(connections) = 0
     THEN /\ error' = "ZeroDivisionError"
          /\ pc' = "failed"
          /\ stop_durations' = <<>>
          /\ total_frames' = 0
     ELSE /\ stop_durations' =
               [k \in 1..Len(connections) |->
                  RatDivInt(RatMul(SumDurations(connections, 1), StopFraction),
                            Len(connections))]
          /\ total_frames' = D * FramesPerSecond
          /\ pc' = "constructed"
          /\ UNCHANGED error
  /\ UNCHANGED <<network, canvas, calls>>

\* animate up to the creation of the animation: build_graph, load_background
\* and draw_network, which fails on a graph node that has no position
AnimateSetup ==
  /\ pc = "constructed"
  /\ LET g == BuildGraph([nodes |-> graph_nodes, edges |-> graph_edges],
                         cities, connections)
     IN  /\ graph_nodes' = g.nodes
         /\ graph_edges' = g.edges
         /\ IF g.nodes \subseteq DOMAIN pos
            THEN pc' = "animating" /\ UNCHANGED error
            ELSE pc' = "failed" /\ error' = "NetworkXError"
  /\ UNCHANGED <<cities, connections, timeline, current_time, canvas, calls>>

\* variant: the travel frames are rounded up
TravelFramesCeiling ==
  (total_frames + Len(connections) - 1) \div Len(connections)

TravelFrames == total_frames \div Len(connections)
\* variant: the stop frames are rounded to the nearest integer
StopFramesRounded(idx) == RoundHalfEven(RatMul(stop_durations[idx], <<10, 1>>))

StopFrames(idx) == Trunc(RatMul(stop_durations[idx], <<10, 1>>))

\* variant: the travel sub-range includes its upper end
InTravelInclusive(f, cumulative_frames, travel_frames) ==
  cumulative_frames <= f /\ f <= cumulative_frames + travel_frames

InTravel(f, cumulative_frames, travel_frames) ==
  cumulative_frames <= f /\ f < cumulative_frames + travel_frames

\* variant: the stop sub-range includes its upper end
InStopInclusive(f, cumulative_frames, travel_frames, stop_frames) ==
  /\ cumulative_frames + travel_frames <= f
  /\ f <= cumulative_frames + travel_frames + stop_frames

InStop(f, cumulative_frames, travel_frames, stop_frames) ==
  /\ cumulative_frames + travel_frames <= f
  /\ f < cumulative_frames + travel_frames + stop_frames

\* the for loop of update: the first connection whose travel or stop
\* sub-range holds frame f, or NO_MATCH when the loop runs out
RECURSIVE Scan(_, _, _)
Scan(idx, cumulative_frames, f) ==
  IF idx > Len(connections)
  THEN [status |-> "NO_MATCH", idx |-> 0, i |-> 0,
        travel_frames |-> 0, stop_frames |-> 0]
  ELSE LET travel_frames == TravelFrames
           stop_frames == StopFrames(idx)
       IN  IF InTravel(f, cumulative_frames, travel_frames)
           THEN [status |-> "TRAVELING", idx |-> idx,
                 i |-> f - cumulative_frames,
                 travel_frames |-> travel_frames, stop_frames |-> stop_frames]
           ELSE IF InStop(f, cumulative_frames, travel_frames, stop_frames)
           THEN [status |-> "STOPPED", idx |-> idx, i |-> 0,
                 travel_frames |-> travel_frames, stop_frames |-> stop_frames]
           ELSE Scan(idx + 1, cumulative_frames + travel_frames + stop_frames, f)

\* variant: the fraction is taken one frame ahead
InterpolateNextStep(start, end, i, travel_frames) ==
  [k \in 1..2 |->
     RatAdd(start[k],
            RatDivInt(RatMul(RatSub(end[k], start[k]), <<i + 1, 1>>),
                      travel_frames))]

\* variant: the marker moves on from where the previous frame left it
InterpolateFromMarker(start, end, i, travel_frames) ==
  [k \in 1..2 |->
     RatAdd(IF marker = NoMarker THEN start[k] ELSE marker[k],
            RatDivInt(RatMul(RatSub(end[k], start[k]), <<i, 1>>),
                      travel_frames))]

\* x_start + (x_end - x_start) * i / travel_frames, on both axes
Interpolate(start, end, i, travel_frames) ==
  [k \in 1..2 |->
     RatAdd(start[k],
            RatDivInt(RatMul(RatSub(end[k], start[k]), <<i, 1>>),
                      travel_frames))]

TravelAdvance(connection, travel_frames) ==
  TimedeltaHours(RatMul(connection.duration, Rat(1, travel_frames)))

StopAdvance(idx) == TimedeltaMinutes(RatDivInt(stop_durations[idx], 10))

\* variant: the canvas is not cleared
StaleCanvas == marker

\* ax.clear(): nothing drawn by an earlier frame stays on the canvas
ClearedCanvas == NoMarker

\* update(f): the canvas is cleared, then the marker of the resolved
\* connection is plotted and the clock advanced
Update(f) ==
  /\ pc = "animating"
  /\ frame' = f
  /\ calls' = calls + 1
  /\ \E r \in {Scan(1, 0, f)} :
         IF r.status = "TRAVELING"
         THEN LET connection == connections[r.idx]
              IN  IF {connection.start_city, connection.end_city}
                       \subseteq DOMAIN pos
                  THEN IF r.travel_frames = 0
                       THEN /\ error' = "ZeroDivisionError"
                            /\ pc' = "failed"
                            /\ marker' = ClearedCanvas
                            /\ view' = NoView
                            /\ UNCHANGED current_time
                       ELSE /\ marker' = Interpolate(pos[connection.start_city],
                                                     pos[connection.end_city],
                                                     r.i, r.travel_frames)
                            /\ current_time' =
                                 TimeAdd(current_time,
                                         TravelAdvance(connection,
                                                       r.travel_frames))
                            /\ view' = r
                            /\ UNCHANGED <<pc, error>>
                  ELSE /\ error' = "KeyError"
                       /\ pc' = "failed"
                       /\ marker' = ClearedCanvas
                       /\ view' = NoView
                       /\ UNCHANGED current_time
         ELSE IF r.status = "STOPPED"
         THEN IF connections[r.idx].end_city \in DOMAIN pos
              THEN /\ marker' = pos[connections[r.idx].end_city]
                   /\ current_time' = TimeAdd(current_time, StopAdvance(r.idx))
                   /\ view' = r
                   /\ UNCHANGED <<pc, error>>
              ELSE /\ error' = "KeyError"
                   /\ pc' = "failed"
                   /\ marker' = ClearedCanvas
                   /\ view' = NoView
                   /\ UNCHANGED current_time
         ELSE /\ marker' = ClearedCanvas
              /\ view' = r
              /\ UNCHANGED <<pc, error, current_time>>
  /\ UNCHANGED <<network, timeline>>

\* the animation asks for frames 0, 1, ..., total_frames - 1 in order
UpdateInOrder ==
  /\ frame + 1 < total_frames
  /\ Update(frame + 1)

\* update called with any frame index, in any order
UpdateAny ==
  /\ calls < MaxCalls
  /\ \E f \in 0..MaxFrame : Update(f)

----------------------------------------------------------------------------
(* The network of the example: A at the minimum corner of the bounding box,
   B at the maximum corner, C never declared *)

Routes == {<<"A", "B">>, <<"B", "A">>, <<"A", "A">>, <<"B", "C">>}

ConnectionChoices ==
  {Connection(r[1], r[2], d) : r \in Routes, d \in Durations}

ConnectionLists(maxLen) ==
  UNION {[1..n -> ConnectionChoices] : n \in 0..maxLen}

\* requested durations: a few short ones and the ten seconds of the
\* one-connection scenario
Seconds == (0..MaxSeconds) \cup {10}

InitLoaded(maxLen) ==
  /\ cities = [n \in Names |->
                 IF n = "A" THEN <<MinX, MinY>> ELSE <<MaxX, MaxY>>]
  /\ connections \in ConnectionLists(maxLen)
  /\ graph_nodes = {}
  /\ graph_edges = <<>>
  /\ pc = "loaded"
  /\ InitVisualizer

Next ==
  \/ \E D \in Seconds : Construct(D)
  \/ AnimateSetup
  \/ UpdateInOrder

Spec == InitLoaded(MaxConnections) /\ [][Next]_vars

NextCalls ==
  \/ \E D \in 0..MaxCallSeconds : Construct(D)
  \/ AnimateSetup
  \/ UpdateAny

SpecCalls == InitLoaded(MaxCallConnections) /\ [][NextCalls]_vars

----------------------------------------------------------------------------
(* Properties *)

NumConnections == Len(connections)
Rendered == pc = "animating" /\ calls > 0
Matched == view.status \in {"TRAVELING", "STOPPED"}

\* cumulative_frames at the start of loop iteration idx
RECURSIVE CumulativeFrames(_)
CumulativeFrames(idx) ==
  IF idx <= 1 THEN 0
  ELSE CumulativeFrames(idx - 1) + TravelFrames + StopFrames(idx - 1)

\* C1: the clock is 06:00 when the visualizer is constructed, and no call
\* of update decreases it.
ClockStartsAtSixAndNeverDecreases ==
  [][/\ (pc = "loaded" /\ pc' # "loaded")
          => current_time' = [sec |-> 21600, us |-> 0]
     /\ pc = "animating" => TimeLeq(current_time, current_time')]_vars

ClockAdvancedOverAllFrames ==
  /\ Rendered
  /\ frame = total_frames - 1
  /\ TimeLess([sec |-> 21600, us |-> 0], current_time)

\* C2: total_frames is ten times the requested seconds, every connection
\* gets total_frames // N travel frames, and the travel frames add up to
\* total_frames less the remainder total_frames mod N.
RECURSIVE SumTravelFrames(_)
SumTravelFrames(k) == IF k = 0 THEN 0 ELSE TravelFrames + SumTravelFrames(k - 1)

TravelFramesDropRemainder ==
  pc \in {"constructed", "animating"} =>
    /\ total_frames = duration * 10
    /\ SumTravelFrames(NumConnections)
         = total_frames - (total_frames % NumConnections)
    /\ (SumTravelFrames(NumConnections) = total_frames)
         <=> (total_frames % NumConnections = 0)
    /\ (Rendered /\ Matched) =>
         /\ view.travel_frames * NumConnections <= total_frames
         /\ total_frames < (view.travel_frames + 1) * NumConnections

RemainderDropped ==
  /\ Rendered
  /\ view.status = "TRAVELING"
  /\ NumConnections = 3
  /\ total_frames = 10
  /\ SumTravelFrames(NumConnections) = 9

\* C3: with an empty connection list the set-up raises InvalidScheduleError
\* and update never runs.
EmptyScheduleRaisesInvalidScheduleError ==
  (pc # "loaded" /\ NumConnections = 0) =>
    /\ pc = "failed"
    /\ error = "InvalidScheduleError"
    /\ calls = 0

----------------------------------------------------------------------------
(* Travel frames *)

ActiveConnection == connections[view.idx]
StartPos == pos[ActiveConnection.start_city]
EndPos == pos[ActiveConnection.end_city]

\* marker = start + (end - start) * i / travel_frames, multiplied out
OnSegment ==
  \A k \in 1..2 :
    RatMul(marker[k], <<view.travel_frames, 1>>)
      = RatAdd(RatMul(StartPos[k], <<view.travel_frames, 1>>),
               RatMul(RatSub(EndPos[k], StartPos[k]), <<view.i, 1>>))

TravelInterpolation ==
  /\ view.i = frame - (view.idx - 1) * (view.travel_frames + view.stop_frames)
  /\ 0 <= view.i /\ view.i < view.travel_frames
  /\ OnSegment
  /\ view.i = 0 => marker = StartPos

OneConnectionScenario ==
  /\ NumConnections = 1
  /\ connections[1] = Connection("A", "B", <<1, 1>>)
  /\ duration = 10

ScenarioFrames ==
  OneConnectionScenario =>
    /\ total_frames = 100
    /\ Matched => view.travel_frames = 100 /\ view.stop_frames = 2
    /\ frame = 0 => marker = pos["A"]
    /\ frame = 99 => /\ view.status = "TRAVELING"
                     /\ marker = <<<<49, 50>>, <<49, 50>>>>

\* C4 as stated: in a travel frame the marker is the linear interpolation at
\* fraction i / travel_frames, at the start city for i = 0, the fraction
\* below 1, and the marker is at the end city in stop frames only.
TravelMarkerNeverAtEndCity ==
  Rendered =>
    /\ view.status = "TRAVELING" => TravelInterpolation /\ marker # EndPos
    /\ ScenarioFrames

\* C4 amended: the same, except that in a travel frame the marker is at the
\* end city's position exactly when the start city has that position too.
TravelMarkerInterpolated ==
  Rendered =>
    /\ view.status = "TRAVELING" =>
         /\ TravelInterpolation
         /\ marker = EndPos <=> StartPos = EndPos
    /\ view.status = "STOPPED" => marker = EndPos
    /\ ScenarioFrames

ScenarioLastTravelFrame ==
  /\ Rendered
  /\ OneConnectionScenario
  /\ frame = 99
  /\ view.status = "TRAVELING"
  /\ view.i = 99
  /\ marker = <<<<49, 50>>, <<49, 50>>>>

----------------------------------------------------------------------------
(* Graph *)

DeclaredPairs ==
  {{connections[k].start_city, connections[k].end_city} :
     k \in 1..NumConnections}

LastDeclared(p) ==
  LET ks == {k \in 1..NumConnections :
               {connections[k].start_city, connections[k].end_city} = p}
  IN  connections[CHOOSE k \in ks : \A j \in ks : j <= k].duration

\* C5: after build_graph the nodes are exactly the declared city names and
\* the edges the unordered endpoint pairs of the connections, each carrying
\* the duration of the last connection on that pair.
GraphIsDeclaredNetwork ==
  pc = "built" =>
    /\ graph_nodes = DOMAIN cities
    /\ DOMAIN graph_edges = DeclaredPairs
    /\ \A p \in DeclaredPairs : graph_edges[p] = LastDeclared(p)

----------------------------------------------------------------------------
(* Stop frames *)

\* stopDuration * 10 with stopDuration = 0.2 * sum(durations) / N
StopDurationTimesTen ==
  RatMul(RatDivInt(RatMul(SumDurations(connections, 1), <<1, 5>>),
                   NumConnections),
         <<10, 1>>)

\* C6 as stated: the stop-frame-count used to resolve a frame is
\* stopDuration * 10 rounded to the nearest integer.
StopFramesAreRounded ==
  (Rendered /\ Matched) =>
    view.stop_frames = RoundHalfEven(StopDurationTimesTen)

\* C6 amended: the stop-frame-count used to resolve a frame is
\* stopDuration * 10 truncated to an integer: the largest integer that does
\* not exceed it.
StopFramesAreTruncated ==
  (Rendered /\ Matched) =>
    /\ view.stop_frames * StopDurationTimesTen[2] <= StopDurationTimesTen[1]
    /\ StopDurationTimesTen[1]
         < (view.stop_frames + 1) * StopDurationTimesTen[2]

TruncatedBelowRounded ==
  /\ Rendered
  /\ Matched
  /\ view.stop_frames < RoundHalfEven(StopDurationTimesTen)

----------------------------------------------------------------------------
(* Frames without travel, frames without a match *)

NoTravelFrames == NumConnections >= 1 /\ total_frames < NumConnections

UpdateStep == pc = "animating" /\ calls' = calls + 1

\* C8 as stated: for a frame beyond all ranges the clock is unchanged and
\* the canvas keeps the marker of the previous frame.
NoMatchKeepsStaleMarker ==
  [][(UpdateStep /\ view'.status = "NO_MATCH") =>
       /\ current_time' = current_time
       /\ marker' = marker]_vars

\* C8 amended: for a frame beyond all ranges the clock is unchanged and the
\* canvas, cleared at the start of update, shows no marker.
NoMatchShowsNoMarker ==
  [][(UpdateStep /\ view'.status = "NO_MATCH") =>
       /\ frame' >= NumConnections * (TravelFrames + StopFrames(1))
       /\ current_time' = current_time
       /\ marker' = NoMarker]_vars

NoMatchAfterRenderedFrame ==
  /\ Rendered
  /\ calls >= 2
  /\ view.status = "NO_MATCH"
  /\ frame >= CumulativeFrames(NumConnections + 1)
  /\ TimeLess([sec |-> 21600, us |-> 0], current_time)

----------------------------------------------------------------------------
(* Resolution of a frame from the frame index and the schedule alone *)

Period == TravelFrames + StopFrames(1)

Resolution(f) ==
  IF Period = 0 \/ f \div Period >= NumConnections
  THEN [status |-> "NO_MATCH", idx |-> 0, i |-> 0,
        travel_frames |-> 0, stop_frames |-> 0]
  ELSE IF f % Period < TravelFrames
  THEN [status |-> "TRAVELING", idx |-> (f \div Period) + 1, i |-> f % Period,
        travel_frames |-> TravelFrames, stop_frames |-> StopFrames(1)]
  ELSE [status |-> "STOPPED", idx |-> (f \div Period) + 1, i |-> 0,
        travel_frames |-> TravelFrames, stop_frames |-> StopFrames(1)]

Position(f) ==
  LET r == Resolution(f)
      s == pos[connections[r.idx].start_city]
      e == pos[connections[r.idx].end_city]
  IN  IF r.status = "NO_MATCH" THEN NoMarker
      ELSE IF r.status = "STOPPED" THEN e
      ELSE [k \in 1..2 |->
              RatAdd(s[k], Rat((e[k][1] * s[k][2] - s[k][1] * e[k][2]) * r.i,
                               e[k][2] * s[k][2] * TravelFrames))]

\* C9: whatever calls came before and whatever the clock shows, update(f)
\* resolves the state and the marker position that the frame index and the
\* schedule determine; it changes nothing but the clock and the canvas, and
\* it advances the clock on every call for a travel or stop frame, also
\* when the same frame is resolved again.
ResolutionDependsOnFrameOnly ==
  [][UpdateStep =>
       /\ view' = Resolution(frame')
       /\ marker' = Position(frame')
       /\ UNCHANGED <<total_frames, stop_durations, cities, connections,
                      pos, duration>>
       /\ view'.status \in {"TRAVELING", "STOPPED"} =>
            TimeLess(current_time, current_time')
       /\ view'.status = "NO_MATCH" => current_time' = current_time
       /\ (calls > 0 /\ frame' = frame) => view' = view /\ marker' = marker]_vars

SameFrameAdvancedClockTwice ==
  /\ Rendered
  /\ calls = 2
  /\ NumConnections = 1
  /\ frame = 0
  /\ view.status = "TRAVELING"
  /\ current_time =
       TimeAdd(TimeAdd([sec |-> 21600, us |-> 0],
                       TravelAdvance(connections[1], TravelFrames)),
               TravelAdvance(connections[1], TravelFrames))

----------------------------------------------------------------------------
(* Sub-ranges *)

\* the frames f with c <= f < c + t, and those with c + t <= f < c + t + s,
\* for the cumulative_frames c of a connection
TravelRange(c, t) == c..(c + t - 1)
StopRange(c, t, s) == (c + t)..(c + t + s - 1)

\* C10: the travel and stop sub-ranges are pairwise disjoint and contiguous
\* from frame 0; every frame below total_frames resolves to at most one
\* connection and to exactly one of TRAVELING, STOPPED and NO_MATCH;
\* NO_MATCH only from frame N * (travel_frames + S) on; so with
\* N * S >= total_frames mod N every rendered frame shows one marker.
SubRangesPartitionFrames ==
  Rendered =>
    \E N \in {NumConnections}, S \in {StopFrames(1)}, T \in {TravelFrames} :
    \E stops \in {[k \in 1..N |-> StopFrames(k)]} :
    \E cum \in {[k \in 1..N |-> CumulativeFrames(k)]} :
      LET travel(k) == TravelRange(cum[k], T)
          stop(k) == StopRange(cum[k], T, stops[k])
          covering == {k \in 1..N : frame \in travel(k) \cup stop(k)}
      IN  /\ \A k \in 1..N : stops[k] = S
          /\ \A k \in 1..N : travel(k) \cap stop(k) = {}
          /\ \A j, k \in 1..N :
               j # k => (travel(j) \cup stop(j)) \cap (travel(k) \cup stop(k)) = {}
          /\ UNION {travel(k) \cup stop(k) : k \in 1..N} = 0..(N * (T + S) - 1)
          /\ Cardinality(covering) <= 1
          /\ view.status \in {"TRAVELING", "STOPPED", "NO_MATCH"}
          /\ view.status = "TRAVELING" <=>
               \E k \in covering : view.idx = k /\ frame \in travel(k)
          /\ view.status = "STOPPED" <=>
               \E k \in covering : view.idx = k /\ frame \in stop(k)
          /\ view.status = "NO_MATCH" <=> covering = {}
          /\ view.status = "NO_MATCH" => frame >= N * (T + S)
          /\ N * S >= total_frames % N =>
               view.status # "NO_MATCH" /\ marker # NoMarker

LastFrameCoveredByStopFrames ==
  /\ Rendered
  /\ total_frames % NumConnections > 0
  /\ NumConnections * StopFrames(1) >= total_frames % NumConnections
  /\ frame = total_frames - 1
  /\ view.status = "STOPPED"
  /\ marker # NoMarker

====
